---- MODULE Spec2Model ----
(***************************************************************************)
(* HomeGame: the host-side Texas Hold'em engine (PokerEngine) and the      *)
(* GameHostController that drives it from submitted player actions and     *)
(* delayed callbacks.                                                      *)
(*                                                                         *)
(* Chip amounts are JavaScript numbers; the pot is split with "/", so a    *)
(* split can leave fractional chips.  Amounts are modelled as exact        *)
(* fractions [n, d] in lowest terms (floating-point rounding is not        *)
(* modelled).  Cards are modelled by how many of them a holder has; the    *)
(* verdict of the external hand evaluator is the per-hand ranking handRank.*)
(***************************************************************************)
EXTENDS Integers, Sequences, FiniteSets, TLC

\* ------------------------------------------------------------------ bounds
MaxPlayers == 3
MaxHands == 2
MaxTimers == 2
MaxRank == 2
MaxInbox == 1
MaxDeliveries == 2
MaxRaiseStep == 0
MaxActions == 4
MaxInboxActions == 3
MaxHandActions == 6
MaxDraw == 2
MaxDeckActions == 3
MaxJoins == 2
MaxLeaves == 1
MaxLobbyActions == 2
MaxOrderInbox == 2
MaxOrderActions == 2
MaxConnects == 2
MaxRestarts == 1
MaxClientActions == 2
MaxFlight == 3
MaxFlightActions == 2
MaxAmount == 3
MaxAmountActions == 3

Ids == 1..MaxPlayers

\* --------------------------------------------------- chip amounts (number)
DeckSize == 52

RECURSIVE Gcd(_, _)
Gcd(a, b) == IF b = 0 THEN a ELSE Gcd(b, a % b)

Abs(x) == IF x < 0 THEN 0 - x ELSE x

Norm(n, d) ==
    LET g == Gcd(Abs(n), d)
    IN  [n |-> IF n < 0 THEN 0 - (Abs(n) \div g) ELSE n \div g, d |-> d \div g]

Q(k) == [n |-> k, d |-> 1]
Zero == Q(0)
QAdd(a, b) == Norm(a.n * b.d + b.n * a.d, a.d * b.d)
QSub(a, b) == Norm(a.n * b.d - b.n * a.d, a.d * b.d)
QLt(a, b) == a.n * b.d < b.n * a.d
QMin(a, b) == IF QLt(b, a) THEN b ELSE a
QMul(a, k) == Norm(a.n * k, a.d)
QDiv(a, k) == Norm(a.n, a.d * k)

RECURSIVE QSum(_)
QSum(s) == IF s = <<>> THEN Zero ELSE QAdd(Head(s), QSum(Tail(s)))

\* ------------------------------------------------------------------ Player
NewPlayer(id, seatPosition, chips) ==
    [id |-> id, seatPosition |-> seatPosition, chips |-> chips, cards |-> 0,
     currentBet |-> Zero, folded |-> FALSE, allIn |-> FALSE, isDealer |-> FALSE,
     isSmallBlind |-> FALSE, isBigBlind |-> FALSE, hasActed |-> FALSE]

\* The external evaluator's verdict on a hand: a strength per player, the best
\* hand having strength MaxRank; NoRank while the hand has not been evaluated.
\* Besides the fields of GameState, the engine record carries two observations:
\* stacks, the players' chips when the hand started, and log, one entry per call
\* of determineWinner in the hand.
NoRank == [i \in Ids |-> 0]

\* The engine after its constructor: an empty roster, phase waiting.
NewEngine(smallBlind, bigBlind) ==
    [players |-> <<>>, communityCards |-> 0, pot |-> Zero, sidePots |-> <<>>,
     currentBet |-> Zero, dealerPosition |-> 0, currentPlayerIndex |-> 0,
     phase |-> "waiting", smallBlind |-> smallBlind, bigBlind |-> bigBlind,
     handNumber |-> 0, deck |-> 0, handRank |-> NoRank, stacks |-> <<>>, log |-> <<>>]

\* ------------------------------------------------------- roster helpers
Indices(ps) == [i \in 1..Len(ps) |-> i]

\* Array.prototype.sort by seat position is stable: a pushed player ends up behind
\* every player whose seat position is not larger.
RECURSIVE InsertBySeat(_, _)
InsertBySeat(s, x) ==
    IF s = <<>> THEN <<x>>
    ELSE IF x.seatPosition < Head(s).seatPosition THEN <<x>> \o s
    ELSE <<Head(s)>> \o InsertBySeat(Tail(s), x)

\* addPlayer: push, then sort by seat position.
addPlayer(e, id, seatPosition, chips) ==
    [e EXCEPT !.players = InsertBySeat(@, NewPlayer(id, seatPosition, chips))]

\* removePlayer: the roster without the entries of this id.
removePlayer(e, playerId) ==
    [e EXCEPT !.players = SelectSeq(@, LAMBDA p : p.id # playerId)]

\* getActivePlayers, as the indices (1-based) of the selected roster entries.
getActivePlayers(e) ==
    SelectSeq(Indices(e.players),
              LAMBDA i : QLt(Zero, e.players[i].chips) \/ QLt(Zero, e.players[i].currentBet))

\* getPlayer: the index of the first roster entry with this id, 0 if none.
getPlayer(e, id) ==
    LET hits == {i \in 1..Len(e.players) : e.players[i].id = id}
    IN  IF hits = {} THEN 0 ELSE CHOOSE i \in hits : \A j \in hits : i <= j

\* getCurrentPlayer: the index of the roster entry on move, 0 if undefined.
getCurrentPlayer(e) ==
    IF e.currentPlayerIndex + 1 \in 1..Len(e.players) THEN e.currentPlayerIndex + 1 ELSE 0

NonFolded(e) == SelectSeq(getActivePlayers(e), LAMBDA i : ~e.players[i].folded)

Chips(ps) == QSum([i \in 1..Len(ps) |-> ps[i].chips])

\* ------------------------------------------------------------ showdown
\* Array.prototype.sort by bet is stable.
RECURSIVE InsertByBet(_, _)
InsertByBet(s, x) ==
    IF s = <<>> THEN <<x>>
    ELSE IF QLt(x.bet, Head(s).bet) THEN <<x>> \o s
    ELSE <<Head(s)>> \o InsertByBet(Tail(s), x)

RECURSIVE SortByBet(_)
SortByBet(s) ==
    IF s = <<>> THEN <<>>
    ELSE InsertByBet(SortByBet(SubSeq(s, 1, Len(s) - 1)), s[Len(s)])

\* The loop of calculatePots over the sorted bets, from position i on.
RECURSIVE PotsFrom(_, _, _, _)
PotsFrom(playerBets, i, previousBet, acc) ==
    IF i > Len(playerBets) THEN acc
    ELSE LET currentBet == playerBets[i].bet
             betDiff == QSub(currentBet, previousBet)
             eligiblePlayers == [k \in 1..(Len(playerBets) - i + 1) |-> playerBets[i + k - 1].id]
             potAmount == QMul(betDiff, Len(eligiblePlayers))
             next == IF QLt(Zero, betDiff) /\ QLt(Zero, potAmount)
                     THEN [sidePots |-> Append(acc.sidePots,
                                               [amount |-> potAmount,
                                                eligiblePlayers |-> eligiblePlayers]),
                           mainPot |-> QSub(acc.mainPot, potAmount)]
                     ELSE acc
         IN  PotsFrom(playerBets, i + 1, currentBet, next)

\* calculatePots: side pots from the currentBet of the active non-folded players,
\* and what is left of the pot as the main pot.
calculatePots(e) ==
    LET activePlayers == NonFolded(e)
        playerBets == SortByBet([k \in 1..Len(activePlayers) |->
                                    [id |-> e.players[activePlayers[k]].id,
                                     bet |-> e.players[activePlayers[k]].currentBet]])
    IN  PotsFrom(playerBets, 1, Zero, [sidePots |-> <<>>, mainPot |-> e.pot])

Range(s) == {s[k] : k \in 1..Len(s)}

\* evaluateHands: the players (roster indices) holding the best hand among idxs;
\* Hand.winners of an empty list is empty.
evaluateHands(e, idxs, rank) ==
    IF idxs = <<>> THEN {}
    ELSE LET top == CHOOSE t \in 0..MaxRank :
                        /\ \E i \in Range(idxs) : rank[e.players[i].id] = t
                        /\ \A i \in Range(idxs) : rank[e.players[i].id] <= t
         IN  {i \in Range(idxs) : rank[e.players[i].id] = top}

\* potWinners.forEach(winner => winner.chips += amount / potWinners.length)
Award(ps, potWinners, amount) ==
    [i \in 1..Len(ps) |->
        IF i \in potWinners
        THEN [ps[i] EXCEPT !.chips = QAdd(@, QDiv(amount, Cardinality(potWinners)))]
        ELSE ps[i]]

RECURSIVE AwardSidePots(_, _, _, _, _)
AwardSidePots(e, ps, activePlayers, sidePots, rank) ==
    IF sidePots = <<>> THEN ps
    ELSE LET sidePot == Head(sidePots)
             eligible == SelectSeq(activePlayers,
                                   LAMBDA i : e.players[i].id \in Range(sidePot.eligiblePlayers))
         IN  AwardSidePots(e, Award(ps, evaluateHands(e, eligible, rank), sidePot.amount),
                           activePlayers, Tail(sidePots), rank)

\* The players of the roster who hold cards and have not folded.
InHand(e) == {i \in 1..Len(e.players) : e.players[i].cards > 0 /\ ~e.players[i].folded}

\* What one call of determineWinner did (observation only): the pot and the
\* players it found, the chips it credited in total, whether it asked the
\* evaluator, and the side pots it computed.
LogEntry(e, after, pots, evaluated) ==
    [pot |-> e.pot, players |-> e.players,
     credited |-> QSub(Chips(after), Chips(e.players)),
     evaluated |-> evaluated, sidePots |-> pots]

\* determineWinner; r is the evaluator's verdict on this hand's cards, used when
\* the hand has not been evaluated before.
determineWinner(e, r) ==
    LET activePlayers == NonFolded(e)
        rank == IF e.handRank = NoRank THEN r ELSE e.handRank
        cp == calculatePots(e)
        ps1 == AwardSidePots(e, e.players, activePlayers, cp.sidePots, rank)
        ps2 == IF QLt(Zero, cp.mainPot)
               THEN Award(ps1, evaluateHands(e, activePlayers, rank), cp.mainPot)
               ELSE ps1
        evaluated == cp.sidePots # <<>> \/ QLt(Zero, cp.mainPot)
        won == [e.players EXCEPT ![activePlayers[1]].chips = QAdd(@, e.pot)]
    IN  IF Len(activePlayers) = 1
        THEN [e EXCEPT !.players = won, !.log = Append(@, LogEntry(e, won, <<>>, FALSE))]
        ELSE [e EXCEPT !.players = ps2,
                       !.handRank = IF evaluated THEN rank ELSE @,
                       !.log = Append(@, LogEntry(e, ps2, cp.sidePots, evaluated))]

\* ------------------------------------------------------------- turn order
CanAct(p) == ~p.folded /\ ~p.allIn /\ QLt(Zero, p.chips)

\* setNextPlayer with a search that skips folded seats only.
setNextPlayerAmongNonFolded(e, r) ==
    LET activePlayers == SelectSeq(getActivePlayers(e),
                                   LAMBDA i : ~e.players[i].folded /\ ~e.players[i].allIn)
        n == Len(e.players)
        first == (e.currentPlayerIndex + 1) % n
        found == {k \in 0..(n - 1) : ~e.players[((first + k) % n) + 1].folded}
        searched == CHOOSE k \in found : \A j \in found : k <= j
    IN  IF activePlayers = <<>>
        THEN determineWinner([e EXCEPT !.phase = "showdown"], r)
        ELSE IF found = {} THEN e
        ELSE [e EXCEPT !.currentPlayerIndex = (first + searched) % n]

setNextPlayer(e, r) ==
    LET activePlayers == SelectSeq(getActivePlayers(e),
                                   LAMBDA i : ~e.players[i].folded /\ ~e.players[i].allIn)
        n == Len(e.players)
        first == (e.currentPlayerIndex + 1) % n
        found == {k \in 0..(n - 1) : CanAct(e.players[((first + k) % n) + 1])}
        searched == CHOOSE k \in found : \A j \in found : k <= j
    IN  IF activePlayers = <<>>
        THEN determineWinner([e EXCEPT !.phase = "showdown"], r)
        ELSE IF found = {} THEN e
        ELSE [e EXCEPT !.currentPlayerIndex = (first + searched) % n]

\* ---------------------------------------------------------- hand start
rotateDealer(e) ==
    LET activePlayers == getActivePlayers(e)
        n == Len(activePlayers)
        dealerPosition == (e.dealerPosition + 1) % n
        sbIndex == (dealerPosition + 1) % n
        bbIndex == (dealerPosition + 2) % n
    IN  IF n < 2 THEN e
        ELSE [e EXCEPT !.dealerPosition = dealerPosition,
                       !.players[activePlayers[dealerPosition + 1]].isDealer = TRUE,
                       !.players[activePlayers[sbIndex + 1]].isSmallBlind = TRUE,
                       !.players[activePlayers[bbIndex + 1]].isBigBlind = TRUE]

postBlinds(e) ==
    LET activePlayers == getActivePlayers(e)
        sbs == SelectSeq(activePlayers, LAMBDA i : e.players[i].isSmallBlind)
        bbs == SelectSeq(activePlayers, LAMBDA i : e.players[i].isBigBlind)
        e1 == IF sbs = <<>> THEN e
              ELSE LET i == Head(sbs)
                       sbAmount == QMin(e.smallBlind, e.players[i].chips)
                       left == QSub(e.players[i].chips, sbAmount)
                   IN  [e EXCEPT !.players[i].chips = left,
                                 !.players[i].currentBet = sbAmount,
                                 !.players[i].allIn = (@ \/ left = Zero),
                                 !.pot = QAdd(@, sbAmount)]
    IN  IF bbs = <<>> THEN e1
        ELSE LET i == Head(bbs)
                 bbAmount == QMin(e1.bigBlind, e1.players[i].chips)
                 left == QSub(e1.players[i].chips, bbAmount)
             IN  [e1 EXCEPT !.players[i].chips = left,
                            !.players[i].currentBet = bbAmount,
                            !.players[i].allIn = (@ \/ left = Zero),
                            !.pot = QAdd(@, bbAmount),
                            !.currentBet = bbAmount]

\* dealHoleCards: a fresh deck, then two rounds of one card to each active player.
dealHoleCards(e) ==
    LET activePlayers == Range(SelectSeq(getActivePlayers(e), LAMBDA i : ~e.players[i].folded))
    IN  [e EXCEPT !.players = [i \in 1..Len(e.players) |->
                                  IF i \in activePlayers
                                  THEN [e.players[i] EXCEPT !.cards = @ + 2]
                                  ELSE e.players[i]],
                  !.deck = DeckSize - 2 * Cardinality(activePlayers)]

startNewHand(e, r) ==
    LET reset == [e EXCEPT !.handNumber = @ + 1, !.phase = "preflop", !.pot = Zero,
                           !.sidePots = <<>>, !.currentBet = Zero, !.communityCards = 0,
                           !.handRank = NoRank, !.log = <<>>,
                           !.stacks = [i \in 1..Len(e.players) |-> e.players[i].chips],
                           !.players = [i \in 1..Len(e.players) |->
                               [e.players[i] EXCEPT !.cards = 0, !.currentBet = Zero,
                                    !.folded = FALSE, !.allIn = FALSE, !.hasActed = FALSE,
                                    !.isDealer = FALSE, !.isSmallBlind = FALSE,
                                    !.isBigBlind = FALSE]]]
    IN  setNextPlayer(dealHoleCards(postBlinds(rotateDealer(reset))), r)

\* ------------------------------------------------------- player actions
\* Each returns [ok, e]: the method's boolean result and the engine after it.
fold(e, playerId) ==
    LET i == getPlayer(e, playerId)
    IN  IF i = 0 \/ e.players[i].folded THEN [ok |-> FALSE, e |-> e]
        ELSE [ok |-> TRUE,
              e |-> [e EXCEPT !.players[i].folded = TRUE, !.players[i].hasActed = TRUE]]

\* call that forgets to add the chips to the caller's contribution.
callWithoutContribution(e, playerId) ==
    LET i == getPlayer(e, playerId)
        callAmount == QSub(e.currentBet, e.players[i].currentBet)
        actualAmount == QMin(callAmount, e.players[i].chips)
        left == QSub(e.players[i].chips, actualAmount)
    IN  IF i = 0 \/ e.players[i].folded THEN [ok |-> FALSE, e |-> e]
        ELSE [ok |-> TRUE,
              e |-> [e EXCEPT !.players[i].chips = left,
                              !.players[i].hasActed = TRUE,
                              !.players[i].allIn = (@ \/ left = Zero),
                              !.pot = QAdd(@, actualAmount)]]

call(e, playerId) ==
    LET i == getPlayer(e, playerId)
        callAmount == QSub(e.currentBet, e.players[i].currentBet)
        actualAmount == QMin(callAmount, e.players[i].chips)
        left == QSub(e.players[i].chips, actualAmount)
    IN  IF i = 0 \/ e.players[i].folded THEN [ok |-> FALSE, e |-> e]
        ELSE [ok |-> TRUE,
              e |-> [e EXCEPT !.players[i].chips = left,
                              !.players[i].currentBet = QAdd(@, actualAmount),
                              !.players[i].hasActed = TRUE,
                              !.players[i].allIn = (@ \/ left = Zero),
                              !.pot = QAdd(@, actualAmount)]]

\* raise taking raiseAmount as the new bet-to-match itself ("raise to").
raiseTo(e, playerId, raiseAmount) ==
    LET i == getPlayer(e, playerId)
        totalBet == raiseAmount
        amountToAdd == QSub(totalBet, e.players[i].currentBet)
        actualAmount == QMin(amountToAdd, e.players[i].chips)
        left == QSub(e.players[i].chips, actualAmount)
        bet == QAdd(e.players[i].currentBet, actualAmount)
    IN  IF i = 0 \/ e.players[i].folded THEN [ok |-> FALSE, e |-> e]
        ELSE [ok |-> TRUE,
              e |-> [e EXCEPT !.pot = QAdd(@, actualAmount),
                              !.currentBet = bet,
                              !.players = [j \in 1..Len(e.players) |->
                                  IF j = i
                                  THEN [e.players[j] EXCEPT !.chips = left,
                                            !.currentBet = bet, !.hasActed = TRUE,
                                            !.allIn = (@ \/ left = Zero)]
                                  ELSE IF e.players[j].id # playerId
                                          /\ ~e.players[j].folded /\ ~e.players[j].allIn
                                  THEN [e.players[j] EXCEPT !.hasActed = FALSE]
                                  ELSE e.players[j]]]]

\* raise without the reset of the other players' hasActed.
raiseKeepingFlags(e, playerId, raiseAmount) ==
    LET i == getPlayer(e, playerId)
        totalBet == QAdd(e.currentBet, raiseAmount)
        amountToAdd == QSub(totalBet, e.players[i].currentBet)
        actualAmount == QMin(amountToAdd, e.players[i].chips)
        left == QSub(e.players[i].chips, actualAmount)
        bet == QAdd(e.players[i].currentBet, actualAmount)
    IN  IF i = 0 \/ e.players[i].folded THEN [ok |-> FALSE, e |-> e]
        ELSE [ok |-> TRUE,
              e |-> [e EXCEPT !.pot = QAdd(@, actualAmount),
                              !.currentBet = bet,
                              !.players[i] = [@ EXCEPT !.chips = left, !.currentBet = bet,
                                                       !.hasActed = TRUE,
                                                       !.allIn = (@ \/ left = Zero)]]]

raise(e, playerId, raiseAmount) ==
    LET i == getPlayer(e, playerId)
        totalBet == QAdd(e.currentBet, raiseAmount)
        amountToAdd == QSub(totalBet, e.players[i].currentBet)
        actualAmount == QMin(amountToAdd, e.players[i].chips)
        left == QSub(e.players[i].chips, actualAmount)
        bet == QAdd(e.players[i].currentBet, actualAmount)
    IN  IF i = 0 \/ e.players[i].folded THEN [ok |-> FALSE, e |-> e]
        ELSE [ok |-> TRUE,
              e |-> [e EXCEPT !.pot = QAdd(@, actualAmount),
                              !.currentBet = bet,
                              !.players = [j \in 1..Len(e.players) |->
                                  IF j = i
                                  THEN [e.players[j] EXCEPT !.chips = left,
                                            !.currentBet = bet, !.hasActed = TRUE,
                                            !.allIn = (@ \/ left = Zero)]
                                  ELSE IF e.players[j].id # playerId
                                          /\ ~e.players[j].folded /\ ~e.players[j].allIn
                                  THEN [e.players[j] EXCEPT !.hasActed = FALSE]
                                  ELSE e.players[j]]]]

check(e, playerId) ==
    LET i == getPlayer(e, playerId)
    IN  IF i = 0 \/ e.players[i].folded THEN [ok |-> FALSE, e |-> e]
        ELSE IF e.players[i].currentBet # e.currentBet THEN [ok |-> FALSE, e |-> e]
        ELSE [ok |-> TRUE, e |-> [e EXCEPT !.players[i].hasActed = TRUE]]

isBettingRoundComplete(e) ==
    LET activePlayers == NonFolded(e)
        playersWhoCanAct == SelectSeq(activePlayers, LAMBDA i : ~e.players[i].allIn)
    IN  \/ Len(activePlayers) <= 1
        \/ playersWhoCanAct = <<>>
        \/ \A i \in Range(playersWhoCanAct) :
              e.players[i].hasActed /\ e.players[i].currentBet = e.currentBet

\* dealCommunityCards(count): pops while the deck is not empty.
dealCommunityCards(e, count) ==
    LET dealt == IF e.deck < count THEN e.deck ELSE count
    IN  [e EXCEPT !.communityCards = @ + dealt, !.deck = @ - dealt]

advancePhase(e, r) ==
    LET reset == [e EXCEPT !.currentBet = Zero,
                           !.players = [i \in 1..Len(e.players) |->
                               [e.players[i] EXCEPT !.currentBet = Zero, !.hasActed = FALSE]]]
        moved == IF e.phase = "preflop"
                 THEN dealCommunityCards([reset EXCEPT !.phase = "flop"], 3)
                 ELSE IF e.phase = "flop"
                 THEN dealCommunityCards([reset EXCEPT !.phase = "turn"], 1)
                 ELSE IF e.phase = "turn"
                 THEN dealCommunityCards([reset EXCEPT !.phase = "river"], 1)
                 ELSE IF e.phase = "river"
                 THEN determineWinner([reset EXCEPT !.phase = "showdown"], r)
                 ELSE reset
    IN  setNextPlayer(moved, r)

\* ------------------------------------------------------------- the cards
\* Where the engine record counts cards, table follows the cards themselves: the
\* private deck, every player's cards and the community cards.
Ranks == <<"2", "3", "4", "5", "6", "7", "8", "9", "T", "J", "Q", "K", "A">>
Suits == <<"h", "d", "c", "s">>

\* The nested loops of createDeck: for each suit, for each rank, push.
Ordered == [k \in 1..(Len(Suits) * Len(Ranks)) |->
               [rank |-> Ranks[((k - 1) % Len(Ranks)) + 1],
                suit |-> Suits[((k - 1) \div Len(Ranks)) + 1]]]

\* The values Math.random() returns during one shuffle: u / MaxDraw with u taken
\* in turn from a pair of numerators.
RandomSources == [1..2 -> 0..(MaxDraw - 1)]
NoSource == [k \in 1..2 |-> 0]

\* The shuffle loop of createDeck from (0-based) position i down to 1; n counts
\* the calls of Math.random() so far.
RECURSIVE Shuffle(_, _, _, _)
Shuffle(deck, i, n, src) ==
    IF i < 1 THEN deck
    ELSE LET j == (src[(n % 2) + 1] * (i + 1)) \div MaxDraw
         IN  Shuffle([deck EXCEPT ![i + 1] = deck[j + 1], ![j + 1] = deck[i + 1]],
                     i - 1, n + 1, src)

createDeck(src) == Shuffle(Ordered, Len(Ordered) - 1, 0, src)

NoCard == [rank |-> "undefined", suit |-> "undefined"]
NoTable == [deck |-> <<>>, hole |-> [id \in Ids |-> <<>>], community |-> <<>>]

\* Reading the last element of the deck without removing it.
PopKeepingDeck(deck) ==
    IF deck = <<>> THEN [card |-> NoCard, deck |-> deck]
    ELSE [card |-> deck[Len(deck)], deck |-> deck]

\* Array.prototype.pop: the last element (undefined if there is none) and the rest.
Pop(deck) ==
    IF deck = <<>> THEN [card |-> NoCard, deck |-> deck]
    ELSE [card |-> deck[Len(deck)], deck |-> SubSeq(deck, 1, Len(deck) - 1)]

\* One round of dealHoleCards: player.cards.push(this.deck.pop()) for each of ids.
RECURSIVE DealRound(_, _)
DealRound(t, ids) ==
    IF ids = <<>> THEN t
    ELSE DealRound([t EXCEPT !.hole[Head(ids)] = Append(@, Pop(t.deck).card),
                             !.deck = Pop(t.deck).deck],
                   Tail(ids))

\* The cards after startNewHand led to engine e: everybody's cards and the
\* community cards were cleared, and dealHoleCards made a deck and dealt two rounds
\* to the players it selected, who are the ones holding cards in e.
HoleCardsDealt(e, src) ==
    LET dealtTo == SelectSeq(Indices(e.players), LAMBDA i : e.players[i].cards > 0)
        ids == [k \in 1..Len(dealtTo) |-> e.players[dealtTo[k]].id]
    IN  DealRound(DealRound([NoTable EXCEPT !.deck = createDeck(src)], ids), ids)

\* dealCommunityCards(count) on the cards.
RECURSIVE CommunityCardsDealt(_, _)
CommunityCardsDealt(t, count) ==
    IF count = 0 \/ t.deck = <<>> THEN t
    ELSE CommunityCardsDealt([t EXCEPT !.community = Append(@, Pop(t.deck).card),
                                       !.deck = Pop(t.deck).deck],
                             count - 1)

\* ------------------------------------------------- GameHostController
\* engine, config, isGameActive: the controller's fields; timers, advancing: its
\* pending setTimeout callbacks and its advanceGamePhase calls waiting for their
\* save; inbox: the rows of player_actions; published: the stored game state.
\* clicks counts the actions taken at the table, and owing holds the players who
\* have not acted since the last raise of the betting round (observations only).
\* callbacks: the slots whose action callback awaits markActionProcessed, in the
\* order in which the callbacks started.  client: a GameClientController.
\* table: the cards themselves, and last: the last call of an engine method with
\* the engine before and after it; they are followed when observe says so.
\* env counts the roster notifications and the restarts of the host, and holds
\* the users whose row of game_participants the host read when it initialized.
VARIABLES engine, config, isGameActive, initialized, timers, advancing, inbox,
          published, flight, clicks, owing, observe, table, last, callbacks, client, env

vars == <<engine, config, isGameActive, initialized, timers, advancing, inbox,
          published, flight, clicks, owing, observe, table, last, callbacks, client, env>>

HostId == 1
NoAmount == [n |-> 0, d |-> 0]

\* The table configurations explored (in chips): blinds 1/2 with a buy-in of 4,
\* and the heads-up scenario's blinds 10/20 with a buy-in of 1000.
TableConfig == [smallBlind |-> Q(1), bigBlind |-> Q(2), buyIn |-> Q(4)]
HeadsUpConfig == [smallBlind |-> Q(10), bigBlind |-> Q(20), buyIn |-> Q(1000)]

\* getState(): the snapshot handed to saveGameState (the deck is private).
Snapshot(e) ==
    [f \in {"players", "communityCards", "pot", "sidePots", "currentBet", "dealerPosition",
            "currentPlayerIndex", "phase", "smallBlind", "bigBlind", "handNumber"} |-> e[f]]

\* The actions the table UI lets user id trigger when it shows the snapshot view:
\* the buttons are rendered for a seated, non-folded user and enabled on the
\* user's turn; check when the bets are level, call when 0 < callAmount < chips,
\* raise (slider from minRaise = 2 big blinds, initially there, up to the stack)
\* when chips > callAmount, all-in with a non-empty stack.
Offered(view, id) ==
    IF view.phase = "none" THEN {}
    ELSE
    LET mine == {i \in 1..Len(view.players) : view.players[i].id = id}
        me == view.players[CHOOSE i \in mine : \A j \in mine : i <= j]
        isPlayerTurn == /\ view.currentPlayerIndex + 1 \in 1..Len(view.players)
                        /\ view.players[view.currentPlayerIndex + 1].id = id
        canCheck == me.currentBet = view.currentBet
        callAmount == QSub(view.currentBet, me.currentBet)
        minRaise == QMul(view.bigBlind, 2)
        slider == {a \in {QAdd(minRaise, Q(k)) : k \in 0..MaxRaiseStep} :
                      a = minRaise \/ ~QLt(me.chips, a)}
    IN  IF mine = {} THEN {}
        ELSE IF me.folded \/ ~isPlayerTurn THEN {}
        ELSE {[type |-> "fold", amount |-> NoAmount]}
             \cup (IF canCheck THEN {[type |-> "check", amount |-> NoAmount]} ELSE {})
             \cup (IF ~canCheck /\ QLt(Zero, callAmount) /\ QLt(callAmount, me.chips)
                   THEN {[type |-> "call", amount |-> NoAmount]} ELSE {})
             \cup (IF QLt(callAmount, me.chips)
                   THEN {[type |-> "raise", amount |-> a] : a \in slider} ELSE {})
             \cup (IF me.chips # Zero THEN {[type |-> "all-in", amount |-> NoAmount]} ELSE {})

\* An unused row of player_actions, and the state store before the first save.
\* A row's outcome records what handlePlayerAction last did with it (observation
\* only): "applied", "not-turn" or "failed".
EmptySlot == [user_id |-> 0, action_type |-> "none", amount |-> NoAmount,
              processed |-> FALSE, deliveries |-> 0, awaiting |-> 0,
              outcome |-> "none"]
NoSnapshot == [phase |-> "none"]

\* Pending setTimeout callbacks, by callback.  stale (an observation, followed
\* when observe holds "timers") counts the pending phase-advance callbacks that
\* were scheduled in an earlier hand than the current one; these callbacks have
\* the same delay, so the oldest fires first.
NoTimers == [advance |-> 0, start |-> 0, ended |-> 0, stale |-> 0]

\* The verdicts a handler call can meet: the evaluator is asked only when the
\* call evaluates a hand that was not evaluated before; probe is the engine
\* after the call made with the verdict AllBest, which shows whether it does.
\* Rankings(e) are the verdicts that differ for the players of e who can be
\* compared (the non-folded ones); the best hand among them has strength MaxRank.
AllBest == [i \in Ids |-> MaxRank]

Rankings(e) ==
    LET compared == {e.players[i].id : i \in {j \in 1..Len(e.players) : ~e.players[j].folded}}
    IN  {f \in [Ids -> 1..MaxRank] :
            /\ \A i \in Ids \ compared : f[i] = MaxRank
            /\ \E i \in Ids : f[i] = MaxRank}

Verdicts(e, probe) ==
    IF probe.handRank = AllBest /\ (e.handRank # AllBest \/ probe.handNumber # e.handNumber)
    THEN Rankings(probe) ELSE {AllBest}

\* No engine method called yet; a client controller after its constructor.
NoCall == [op |-> "none", id |-> 0, seat |-> 0, amount |-> NoAmount, ok |-> FALSE,
           before |-> <<>>, after |-> <<>>]
\* Besides the controller's fields: where its connect() stands (pc), the row the
\* fetch read, the state of its game-state channel and the row the channel last
\* saw; and as observations the stored snapshot when connect() completed, the
\* notifications handled since, and the calls of connect() so far.
NewClient == [connectionStatus |-> "disconnected", pc |-> "idle", fetched |-> NoSnapshot,
              currentGameState |-> NoSnapshot, channel |-> "none",
              delivered |-> NoSnapshot, atConnect |-> NoSnapshot, updates |-> 0,
              connects |-> 0]
NoEvents == [joins |-> 0, leaves |-> 0, restarts |-> 0, rows |-> {}]

\* The state after the GameHostController's constructor, for a table with the
\* configuration c and slots rows of player_actions; obs is what is followed.
InitAll(c, obs, slots) ==
    /\ config = c
    /\ engine = NewEngine(c.smallBlind, c.bigBlind)
    /\ isGameActive = FALSE
    /\ initialized = FALSE
    /\ timers = NoTimers
    /\ advancing = 0
    /\ inbox = [s \in 1..slots |-> EmptySlot]
    /\ published = NoSnapshot
    /\ flight = <<>>
    /\ clicks = 0
    /\ owing = {}
    /\ observe = obs
    /\ table = NoTable
    /\ last = NoCall
    /\ callbacks = <<>>
    /\ client = NewClient
    /\ env = NoEvents

InitWith(c) == InitAll(c, {}, MaxInbox)

Init == InitWith(TableConfig)

\* saveGameState, once for each snapshot of taken (in the order in which
\* getState() returned them): updateGameState replaces the stored state.  When
\* observe holds "flight" the update requests are followed on their way: each is
\* in flight until the store executes it (Stored); otherwise the store executes
\* each at once.  late (an observation) tells that a snapshot taken later than
\* this one, and different from it, has been stored already.
Save(taken) ==
    IF "flight" \in observe
    THEN /\ flight' = flight \o [k \in 1..Len(taken) |-> [state |-> taken[k], late |-> FALSE]]
         /\ Len(flight') <= MaxFlight
         /\ published' = published
    ELSE /\ published' = taken[Len(taken)]
         /\ flight' = flight

\* The store executes the k-th update request in flight: the requests are
\* independent HTTP requests, executed in the order in which they arrive.
Stored(k) ==
    /\ k \in 1..Len(flight)
    /\ published' = flight[k].state
    /\ flight' = [j \in 1..(Len(flight) - 1) |->
                     IF j < k
                     THEN [flight[j] EXCEPT !.late = @ \/ flight[j].state # flight[k].state]
                     ELSE flight[j + 1]]
    /\ UNCHANGED <<engine, config, isGameActive, initialized, timers, advancing, inbox,
                   clicks, owing, observe, table, last, callbacks, client, env>>

\* How the step from engine to engine' moved the cards: a new hand cleared and
\* dealt them from a deck shuffled with src, anything else dealt the community
\* cards that were added.
Sources ==
    IF "cards" \in observe /\ engine'.handNumber # engine.handNumber
    THEN RandomSources ELSE {NoSource}

Cards(src) ==
    IF "cards" \notin observe THEN table
    ELSE IF engine'.handNumber # engine.handNumber THEN HoleCardsDealt(engine', src)
    ELSE CommunityCardsDealt(table, engine'.communityCards - engine.communityCards)

RECURSIVE AddExisting(_, _, _, _)
AddExisting(e, i, n, buyIn) ==
    IF i >= n THEN e
    ELSE AddExisting(IF getPlayer(e, i + 1) = 0 THEN addPlayer(e, i + 1, i, buyIn) ELSE e,
                     i + 1, n, buyIn)

\* initialize() on a table with no stored state: the n participants already in
\* game_participants are seated at 0..n-1; with two or more the first hand starts.
Initialize(n) ==
    /\ ~initialized
    /\ initialized' = TRUE
    /\ LET seated == AddExisting(engine, 0, n, config.buyIn)
           start == Len(seated.players) >= 2 /\ ~isGameActive
       IN  /\ isGameActive' = (isGameActive \/ start)
           /\ \E r \in Verdicts(seated, startNewHand(seated, AllBest)) :
                 engine' = IF start THEN startNewHand(seated, r) ELSE seated
           /\ Save(<<Snapshot(engine')>>)
    /\ \E src \in Sources : table' = Cards(src)
    /\ env' = [env EXCEPT !.rows = 1..n]
    /\ UNCHANGED <<config, timers, advancing, inbox, clicks, owing>>
    /\ UNCHANGED <<observe, last, callbacks, client>>

\* setState(state): the engine's game state is replaced by the stored one.  The
\* deck is no part of a stored state: it stays what the engine had.
setState(e, state) ==
    [f \in DOMAIN e |-> IF f \in DOMAIN state THEN state[f] ELSE e[f]]

\* The host's page is loaded again while the table is set up: a new controller
\* and engine are constructed (no pending timers or callbacks, an empty deck)
\* and initialize() finds a stored state: the engine is set to it, the game is
\* active unless the stored phase is waiting or ended, the participants not in
\* the restored roster are added, and a hand is started or the state saved only
\* if the game is not active.
Restart ==
    /\ initialized
    /\ published # NoSnapshot
    /\ env.restarts < MaxRestarts
    /\ env.rows = 1..Cardinality(env.rows)
    /\ env' = [env EXCEPT !.restarts = @ + 1]
    /\ LET built == [NewEngine(config.smallBlind, config.bigBlind)
                        EXCEPT !.handRank = engine.handRank, !.stacks = engine.stacks,
                               !.log = engine.log]
           restored == setState(built, published)
           active == published.phase \notin {"waiting", "ended"}
           seated == AddExisting(restored, 0, Cardinality(env.rows), config.buyIn)
           start == Len(seated.players) >= 2 /\ ~active
       IN  /\ isGameActive' = (active \/ start)
           /\ \E r \in Verdicts(seated, startNewHand(seated, AllBest)) :
                 engine' = IF start THEN startNewHand(seated, r) ELSE seated
           /\ IF active THEN UNCHANGED <<published, flight>>
              ELSE Save(<<Snapshot(engine')>>)
           /\ owing' = IF start THEN {} ELSE owing
    /\ \E src \in Sources :
          table' = IF engine'.handNumber # engine.handNumber THEN Cards(src)
                   ELSE [table EXCEPT !.deck = <<>>]
    /\ timers' = NoTimers
    /\ advancing' = 0
    /\ callbacks' = <<>>
    /\ UNCHANGED <<config, initialized, inbox, clicks, observe, last, client>>

\* ------------------------------------------------- roster notifications
\* The INSERT notification of a game_participants row of user id: the user is
\* added at seat players.length; a second player starts the first hand,
\* otherwise the state is saved.  Rows the host read when it initialized were
\* inserted before it subscribed and are not notified.
Join(id) ==
    /\ initialized
    /\ id \notin env.rows
    /\ env.joins < MaxJoins
    /\ env' = [env EXCEPT !.joins = @ + 1]
    /\ LET seatPosition == Len(engine.players)
           seated == addPlayer(engine, id, seatPosition, config.buyIn)
           start == Len(seated.players) >= 2 /\ ~isGameActive
       IN  /\ isGameActive' = (isGameActive \/ start)
           /\ \E r \in Verdicts(seated, startNewHand(seated, AllBest)) :
                 engine' = IF start THEN startNewHand(seated, r) ELSE seated
           /\ Save(<<Snapshot(engine')>>)
           /\ last' = IF "calls" \in observe
                      THEN [op |-> "addPlayer", id |-> id, seat |-> seatPosition,
                            amount |-> config.buyIn, ok |-> TRUE,
                            before |-> engine, after |-> seated]
                      ELSE last
    /\ \E src \in Sources : table' = Cards(src)
    /\ UNCHANGED <<config, initialized, timers, advancing, inbox, clicks, owing>>
    /\ UNCHANGED <<observe, callbacks, client>>

\* The DELETE notification of the row of user id: folded first if it is the
\* user's turn, then removed from the roster, then the state is saved.
Leave(id) ==
    /\ initialized
    /\ id # HostId
    /\ getPlayer(engine, id) # 0
    /\ env.leaves < MaxLeaves
    /\ env' = [env EXCEPT !.leaves = @ + 1, !.rows = @ \ {id}]
    /\ LET currentPlayer == getCurrentPlayer(engine)
           isTurn == currentPlayer # 0 /\ engine.players[currentPlayer].id = id
           folded == IF isTurn THEN fold(engine, id).e ELSE engine
       IN  engine' = removePlayer(folded, id)
    /\ Save(<<Snapshot(engine')>>)
    /\ owing' = owing \ {id}
    /\ UNCHANGED <<config, isGameActive, initialized, timers, advancing, inbox, clicks>>
    /\ UNCHANGED <<observe, table, last, callbacks, client>>

\* handlePlayerAction without the validation of the turn.
handlePlayerActionAnyTurn(e, type, amount, playerId, r) ==
    LET i == getPlayer(e, playerId)
        rejected == [ok |-> FALSE, e |-> e]
        res == CASE type = "fold" -> fold(e, playerId)
                 [] type = "check" -> check(e, playerId)
                 [] type = "call" -> call(e, playerId)
                 [] type = "raise" -> IF amount # NoAmount THEN raise(e, playerId, amount)
                                      ELSE rejected
                 [] type = "all-in" ->
                        IF i # 0
                        THEN raise(e, playerId,
                                   QSub(QAdd(e.players[i].chips, e.players[i].currentBet),
                                        e.currentBet))
                        ELSE rejected
        next == setNextPlayer(res.e, r)
    IN  IF ~res.ok
        THEN [e |-> e, outcome |-> "failed", advance |-> FALSE, method |-> res]
        ELSE [e |-> next, outcome |-> "applied", advance |-> isBettingRoundComplete(next),
              method |-> res]

\* handlePlayerAction: [e, outcome, advance, method] = the engine after the call,
\* what became of the action, whether a phase advance was scheduled, and the
\* result [ok, e] of the engine method it called.
handlePlayerAction(e, type, amount, playerId, r) ==
    LET currentPlayer == getCurrentPlayer(e)
        i == getPlayer(e, playerId)
        rejected == [ok |-> FALSE, e |-> e]
        res == CASE type = "fold" -> fold(e, playerId)
                 [] type = "check" -> check(e, playerId)
                 [] type = "call" -> call(e, playerId)
                 [] type = "raise" -> IF amount # NoAmount THEN raise(e, playerId, amount)
                                      ELSE rejected
                 [] type = "all-in" ->
                        IF i # 0
                        THEN raise(e, playerId,
                                   QSub(QAdd(e.players[i].chips, e.players[i].currentBet),
                                        e.currentBet))
                        ELSE rejected
        next == setNextPlayer(res.e, r)
    IN  IF currentPlayer = 0 \/ e.players[currentPlayer].id # playerId
        THEN [e |-> e, outcome |-> "not-turn", advance |-> FALSE, method |-> rejected]
        ELSE IF ~res.ok
        THEN [e |-> e, outcome |-> "failed", advance |-> FALSE, method |-> res]
        ELSE [e |-> next, outcome |-> "applied", advance |-> isBettingRoundComplete(next),
              method |-> res]

\* The snapshots saved for an action that handlePlayerAction has dealt with (h
\* is its result): its own save when the action was applied and the betting
\* round goes on, then the save of its caller.
Saves(h) ==
    IF h.outcome = "applied" /\ ~h.advance THEN <<Snapshot(h.e), Snapshot(h.e)>>
    ELSE <<Snapshot(h.e)>>

\* The players left to answer once handlePlayerAction has dealt with an action
\* of playerId (h is its result): after a raise, the others who can still act.
Owing(h, type, playerId) ==
    IF h.outcome # "applied" THEN owing
    ELSE IF type \in {"raise", "all-in"}
    THEN {h.e.players[i].id : i \in {j \in InHand(h.e) :
              h.e.players[j].id # playerId /\ ~h.e.players[j].allIn}}
    ELSE owing \ {playerId}

\* The engine method handlePlayerAction called for an action of playerId on
\* engine e (h is its result): none when the action was not the player's turn;
\* an all-in is a raise of everything the player has.
Called(e, h, type, amount, playerId) ==
    IF "calls" \notin observe \/ h.outcome = "not-turn" THEN last
    ELSE LET i == getPlayer(e, playerId)
         IN  [op |-> IF type = "all-in" THEN "raise" ELSE type,
              id |-> playerId, seat |-> 0,
              amount |-> IF type = "all-in"
                         THEN QSub(QAdd(e.players[i].chips, e.players[i].currentBet),
                                   e.currentBet)
                         ELSE amount,
              ok |-> h.method.ok, before |-> e, after |-> h.method.e]

\* The host's own fold/check/call/raise/allIn: handlePlayerAction, then a save.
HostAct(type, amount) ==
    /\ initialized
    /\ [type |-> type, amount |-> amount] \in Offered(Snapshot(engine), HostId)
    /\ \E r \in Verdicts(engine, handlePlayerAction(engine, type, amount, HostId, AllBest).e) :
          \E h \in {handlePlayerAction(engine, type, amount, HostId, r)} :
              /\ engine' = h.e
              /\ timers' = [timers EXCEPT !.advance = IF h.advance THEN @ + 1 ELSE @]
              /\ timers'.advance <= MaxTimers
              /\ Save(Saves(h))
              /\ owing' = Owing(h, type, HostId)
              /\ last' = Called(engine, h, type, amount, HostId)
    /\ clicks' = clicks + 1
    /\ UNCHANGED <<config, isGameActive, initialized, advancing, inbox>>
    /\ UNCHANGED <<observe, table, callbacks, client, env>>

\* A client's action that reaches the host without delay: the row is inserted,
\* notified once, marked processed and handled before anything else happens.
ClientAct(id, type, amount) ==
    /\ initialized
    /\ id # HostId
    /\ [type |-> type, amount |-> amount] \in Offered(published, id)
    /\ \E r \in Verdicts(engine, handlePlayerAction(engine, type, amount, id, AllBest).e) :
          \E h \in {handlePlayerAction(engine, type, amount, id, r)} :
              /\ engine' = h.e
              /\ timers' = [timers EXCEPT !.advance = IF h.advance THEN @ + 1 ELSE @]
              /\ timers'.advance <= MaxTimers
              /\ Save(Saves(h))
              /\ owing' = Owing(h, type, id)
              /\ last' = Called(engine, h, type, amount, id)
    /\ clicks' = clicks + 1
    /\ UNCHANGED <<config, isGameActive, initialized, advancing, inbox>>
    /\ UNCHANGED <<observe, table, callbacks, client, env>>

\* The action types of a row of player_actions, and the amounts followed for a
\* row written through sendAction itself rather than through the buttons.
ActionTypes == {"fold", "check", "call", "raise", "all-in"}
Amounts == {Q(k) : k \in (0 - MaxAmount)..MaxAmount}

\* sendAction with any action and amount, whatever the table shows: the row is
\* inserted, notified once, marked processed and handled like a row of ClientAct.
SendAction(id, type, amount) ==
    /\ initialized
    /\ id # HostId
    /\ getPlayer(engine, id) # 0
    /\ type \in ActionTypes
    /\ amount \in (IF type = "raise" THEN Amounts ELSE {NoAmount})
    /\ \E r \in Verdicts(engine, handlePlayerAction(engine, type, amount, id, AllBest).e) :
          \E h \in {handlePlayerAction(engine, type, amount, id, r)} :
              /\ engine' = h.e
              /\ timers' = [timers EXCEPT !.advance = IF h.advance THEN @ + 1 ELSE @]
              /\ timers'.advance <= MaxTimers
              /\ Save(Saves(h))
              /\ owing' = Owing(h, type, id)
              /\ last' = Called(engine, h, type, amount, id)
    /\ clicks' = clicks + 1
    /\ UNCHANGED <<config, isGameActive, initialized, advancing, inbox>>
    /\ UNCHANGED <<observe, table, callbacks, client, env>>

\* ------------------------------------------------------ action inbox
\* Roster ids that play through a GameClientController.
Clients == {engine.players[i].id : i \in 1..Len(engine.players)} \ {HostId}

\* submitPlayerAction: a client inserts a row into player_actions (processed
\* defaults to false).
Submit(slot, id, type, amount) ==
    /\ initialized
    /\ inbox[slot] = EmptySlot
    /\ id \in Clients
    /\ [type |-> type, amount |-> amount] \in Offered(published, id)
    /\ inbox' = [inbox EXCEPT ![slot] = [EmptySlot EXCEPT !.user_id = id,
                                             !.action_type = type, !.amount = amount]]
    /\ clicks' = clicks + 1
    /\ UNCHANGED <<engine, config, isGameActive, initialized, timers, advancing, published, flight,
                   owing>>
    /\ UNCHANGED <<observe, table, last, callbacks, client, env>>

\* The channel delivers the INSERT notification of a row (again, for a
\* duplicate): payload.new is the row as inserted, so its processed flag is false
\* and the host's callback starts and awaits markActionProcessed.
Deliver(slot) ==
    /\ inbox[slot] # EmptySlot
    /\ inbox[slot].deliveries < MaxDeliveries
    /\ inbox' = [inbox EXCEPT ![slot].deliveries = @ + 1, ![slot].awaiting = @ + 1]
    /\ callbacks' = Append(callbacks, slot)
    /\ UNCHANGED <<engine, config, isGameActive, initialized, timers, advancing, published, flight,
                   clicks, owing>>
    /\ UNCHANGED <<observe, table, last, client, env>>

\* The sequence s without its first occurrence of x.
RECURSIVE Without(_, _)
Without(s, x) ==
    IF s = <<>> THEN <<>>
    ELSE IF Head(s) = x THEN Tail(s)
    ELSE <<Head(s)>> \o Without(Tail(s), x)

\* markActionProcessed returns: the row is processed, and the callback goes on
\* with handlePlayerAction and saveGameState.
ProcessAction(slot) ==
    /\ inbox[slot].awaiting > 0
    /\ LET a == inbox[slot]
       IN  \E r \in Verdicts(engine, handlePlayerAction(engine, a.action_type, a.amount,
                                                         a.user_id, AllBest).e) :
              \E h \in {handlePlayerAction(engine, a.action_type, a.amount, a.user_id, r)} :
                  /\ inbox' = [inbox EXCEPT ![slot].processed = TRUE,
                                            ![slot].awaiting = @ - 1,
                                            ![slot].outcome = h.outcome]
                  /\ engine' = h.e
                  /\ timers' = [timers EXCEPT !.advance = IF h.advance THEN @ + 1 ELSE @]
                  /\ timers'.advance <= MaxTimers
                  /\ Save(Saves(h))
                  /\ owing' = Owing(h, a.action_type, a.user_id)
                  /\ last' = Called(engine, h, a.action_type, a.amount, a.user_id)
    /\ callbacks' = Without(callbacks, slot)
    /\ UNCHANGED <<config, isGameActive, initialized, advancing, clicks>>
    /\ UNCHANGED <<observe, table, client, env>>

\* The channel is done with a consumed row: no further notification for it.
Expire(slot) ==
    /\ inbox[slot].processed
    /\ inbox[slot].awaiting = 0
    /\ inbox' = [inbox EXCEPT ![slot] = EmptySlot]
    /\ UNCHANGED <<engine, config, isGameActive, initialized, timers, advancing, published, flight,
                   clicks, owing>>
    /\ UNCHANGED <<observe, table, last, callbacks, client, env>>

\* ------------------------------------------------ GameClientController
\* connect() starts: the status becomes connecting and fetchGameState is called.
ClientConnect ==
    /\ client.connectionStatus = "disconnected"
    /\ client.connects < MaxConnects
    /\ client' = [client EXCEPT !.connectionStatus = "connecting", !.pc = "fetching",
                                !.connects = @ + 1]
    /\ UNCHANGED <<engine, config, isGameActive, initialized, timers, advancing, inbox,
                   published, flight, clicks, owing, observe, table, last, callbacks, env>>

\* fetchGameState's select reads the stored row.
ClientFetch ==
    /\ client.pc = "fetching"
    /\ client' = [client EXCEPT !.pc = "fetched", !.fetched = published]
    /\ UNCHANGED <<engine, config, isGameActive, initialized, timers, advancing, inbox,
                   published, flight, clicks, owing, observe, table, last, callbacks, env>>

\* The fetch returns: a non-null state is taken over, subscribeToGameState
\* creates the channel and asks to join it, and connect() completes with the
\* status connected.
ClientSubscribe ==
    /\ client.pc = "fetched"
    /\ client' = [client EXCEPT !.pc = "done",
                                !.currentGameState = IF client.fetched # NoSnapshot
                                                     THEN client.fetched ELSE @,
                                !.channel = "joining",
                                !.connectionStatus = "connected",
                                !.atConnect = published]
    /\ UNCHANGED <<engine, config, isGameActive, initialized, timers, advancing, inbox,
                   published, flight, clicks, owing, observe, table, last, callbacks, env>>

\* The channel is joined: updates of the stored row are notified from now on.
ChannelJoined ==
    /\ client.channel = "joining"
    /\ client' = [client EXCEPT !.channel = "joined", !.delivered = published]
    /\ UNCHANGED <<engine, config, isGameActive, initialized, timers, advancing, inbox,
                   published, flight, clicks, owing, observe, table, last, callbacks, env>>

\* The channel notifies an update of the stored row: handleGameStateUpdate.
ClientUpdate ==
    /\ client.channel = "joined"
    /\ published # client.delivered
    /\ client' = [client EXCEPT !.currentGameState = published, !.delivered = published,
                                !.updates = IF @ < 1 THEN @ + 1 ELSE @]
    /\ UNCHANGED <<engine, config, isGameActive, initialized, timers, advancing, inbox,
                   published, flight, clicks, owing, observe, table, last, callbacks, env>>

\* cleanup(): the channel is removed and the local state dropped.
ClientCleanup ==
    /\ client.pc = "done"
    /\ client' = [NewClient EXCEPT !.connects = client.connects]
    /\ UNCHANGED <<engine, config, isGameActive, initialized, timers, advancing, inbox,
                   published, flight, clicks, owing, observe, table, last, callbacks, env>>

\* ------------------------------------------------------ delayed callbacks
\* The 2 s timer of handlePlayerAction fires: advanceGamePhase up to its await.
AdvanceGamePhase ==
    /\ timers.advance > 0
    /\ IF engine.phase \in {"showdown", "ended"}
       THEN /\ timers' = [timers EXCEPT !.advance = @ - 1, !.start = @ + 1,
                                         !.stale = IF @ > 0 THEN @ - 1 ELSE 0]
            /\ timers'.start <= MaxTimers
            /\ UNCHANGED <<engine, advancing, published, flight, owing, table>>
       ELSE /\ timers' = [timers EXCEPT !.advance = @ - 1,
                                         !.stale = IF @ > 0 THEN @ - 1 ELSE 0]
            /\ \E r \in Verdicts(engine, advancePhase(engine, AllBest)) :
                  engine' = advancePhase(engine, r)
            /\ Save(<<Snapshot(engine')>>)
            /\ advancing' = advancing + 1
            /\ advancing' <= MaxTimers
            /\ owing' = {}
            /\ \E src \in Sources : table' = Cards(src)
    /\ UNCHANGED <<config, isGameActive, initialized, inbox, clicks>>
    /\ UNCHANGED <<observe, last, callbacks, client, env>>

\* advanceGamePhase resumes after the save: at showdown it determines the winner
\* and arms the 2 s "hand ended" timer.
AdvanceGamePhaseResume ==
    /\ advancing > 0
    /\ advancing' = advancing - 1
    /\ IF engine.phase = "showdown"
       THEN /\ \E r \in Verdicts(engine, determineWinner(engine, AllBest)) :
                  engine' = determineWinner(engine, r)
            /\ timers' = [timers EXCEPT !.ended = @ + 1]
            /\ timers'.ended <= MaxTimers
       ELSE UNCHANGED <<engine, timers>>
    /\ UNCHANGED <<config, isGameActive, initialized, inbox, published, flight, clicks, owing>>
    /\ UNCHANGED <<observe, table, last, callbacks, client, env>>

\* The "hand ended" timer fires: save, then arm the 5 s new-hand timer.
HandEnded ==
    /\ timers.ended > 0
    /\ timers' = [timers EXCEPT !.ended = @ - 1, !.start = @ + 1]
    /\ timers'.start <= MaxTimers
    /\ Save(<<Snapshot(engine)>>)
    /\ UNCHANGED <<engine, config, isGameActive, initialized, advancing, inbox, clicks, owing>>
    /\ UNCHANGED <<observe, table, last, callbacks, client, env>>

\* A new-hand timer fires: GameHostController.startNewHand.
StartNewHand ==
    /\ timers.start > 0
    /\ engine.handNumber < MaxHands
    /\ timers' = [timers EXCEPT !.start = @ - 1,
                                 !.stale = IF "timers" \in observe THEN timers.advance ELSE 0]
    /\ \E r \in Verdicts(engine, startNewHand(engine, AllBest)) :
          engine' = startNewHand(engine, r)
    /\ Save(<<Snapshot(engine')>>)
    /\ owing' = {}
    /\ \E src \in Sources : table' = Cards(src)
    /\ UNCHANGED <<config, isGameActive, initialized, advancing, inbox, clicks>>
    /\ UNCHANGED <<observe, last, callbacks, client, env>>

Timeouts ==
    \/ AdvanceGamePhase
    \/ AdvanceGamePhaseResume
    \/ HandEnded
    \/ StartNewHand

\* The host and its engine, every client action arriving without delay; at most
\* MaxActions actions are taken at the table.
Next ==
    \/ \E n \in 2..MaxPlayers : Initialize(n)
    \/ /\ clicks < MaxActions
       /\ \E a \in Offered(Snapshot(engine), HostId) : HostAct(a.type, a.amount)
    \/ /\ clicks < MaxActions
       /\ \E id \in Ids : \E a \in Offered(published, id) : ClientAct(id, a.type, a.amount)
    \/ Timeouts

Spec == Init /\ [][Next]_vars

\* The same with the action inbox in between: rows are submitted, notified
\* (possibly twice), marked processed and handled in separate steps.
NextInbox ==
    \/ \E n \in 2..MaxPlayers : Initialize(n)
    \/ /\ clicks < MaxInboxActions
       /\ \E a \in Offered(Snapshot(engine), HostId) : HostAct(a.type, a.amount)
    \/ /\ clicks < MaxInboxActions
       /\ \E slot \in 1..MaxInbox, id \in Ids :
             \E a \in Offered(published, id) : Submit(slot, id, a.type, a.amount)
    \/ \E slot \in 1..MaxInbox : Deliver(slot)
    \/ \E slot \in 1..MaxInbox : ProcessAction(slot)
    \/ \E slot \in 1..MaxInbox : Expire(slot)
    \/ Timeouts

SpecInbox == Init /\ [][NextInbox]_vars

\* The first hand of a full table, followed for up to MaxHandActions actions.
NextHand ==
    \/ Initialize(MaxPlayers)
    \/ /\ clicks < MaxHandActions
       /\ \E a \in Offered(Snapshot(engine), HostId) : HostAct(a.type, a.amount)
    \/ /\ clicks < MaxHandActions
       /\ \E id \in Ids : \E a \in Offered(published, id) : ClientAct(id, a.type, a.amount)
    \/ AdvanceGamePhase
    \/ AdvanceGamePhaseResume
    \/ HandEnded

SpecHand == Init /\ [][NextHand]_vars

\* The heads-up scenario: two players, blinds 10/20, stacks of 1000.
NextHeadsUp ==
    \/ Initialize(2)
    \/ /\ clicks < MaxActions
       /\ \E a \in Offered(Snapshot(engine), HostId) : HostAct(a.type, a.amount)
    \/ /\ clicks < MaxActions
       /\ \E id \in Ids : \E a \in Offered(published, id) : ClientAct(id, a.type, a.amount)
    \/ Timeouts

SpecHeadsUp == InitWith(HeadsUpConfig) /\ [][NextHeadsUp]_vars

\* Two hands with the cards followed, for up to MaxDeckActions actions.
NextDeck ==
    \/ \E n \in 2..MaxPlayers : Initialize(n)
    \/ /\ clicks < MaxDeckActions
       /\ \E a \in Offered(Snapshot(engine), HostId) : HostAct(a.type, a.amount)
    \/ /\ clicks < MaxDeckActions
       /\ \E id \in Ids : \E a \in Offered(published, id) : ClientAct(id, a.type, a.amount)
    \/ Timeouts

SpecDeck == InitAll(TableConfig, {"cards"}, MaxInbox) /\ [][NextDeck]_vars

\* A table that players join and leave while the host plays, with the calls of
\* the engine's methods followed.
NextLobby ==
    \/ \E n \in 1..MaxPlayers : Initialize(n)
    \/ \E id \in Ids : Join(id)
    \/ \E id \in Ids : Leave(id)
    \/ /\ clicks < MaxLobbyActions
       /\ \E a \in Offered(Snapshot(engine), HostId) : HostAct(a.type, a.amount)
    \/ /\ clicks < MaxLobbyActions
       /\ \E id \in Ids : \E a \in Offered(published, id) : ClientAct(id, a.type, a.amount)
    \/ Timeouts

SpecLobby == InitAll(TableConfig, {"calls"}, MaxInbox) /\ [][NextLobby]_vars

\* Heads-up play at either table configuration, with the calls of the engine's
\* methods followed.
InitCalls == \E c \in {TableConfig, HeadsUpConfig} : InitAll(c, {"calls"}, MaxInbox)

SpecCalls == InitCalls /\ [][NextHeadsUp]_vars

\* Two rows of player_actions in flight at a time: their callbacks await
\* markActionProcessed side by side.
NextOrder ==
    \/ \E n \in 2..MaxPlayers : Initialize(n)
    \/ /\ clicks < MaxOrderActions
       /\ \E a \in Offered(Snapshot(engine), HostId) : HostAct(a.type, a.amount)
    \/ /\ clicks < MaxOrderActions
       /\ \E slot \in 1..MaxOrderInbox, id \in Ids :
             \E a \in Offered(published, id) : Submit(slot, id, a.type, a.amount)
    \/ \E slot \in 1..MaxOrderInbox : Deliver(slot)
    \/ \E slot \in 1..MaxOrderInbox : ProcessAction(slot)
    \/ \E slot \in 1..MaxOrderInbox : Expire(slot)
    \/ Timeouts

SpecOrder == InitAll(TableConfig, {}, MaxOrderInbox) /\ [][NextOrder]_vars

\* A client controller connecting and reconnecting while the table plays.
NextClient ==
    \/ \E n \in 2..MaxPlayers : Initialize(n)
    \/ /\ clicks < MaxClientActions
       /\ \E a \in Offered(Snapshot(engine), HostId) : HostAct(a.type, a.amount)
    \/ /\ clicks < MaxClientActions
       /\ \E id \in Ids : \E a \in Offered(published, id) : ClientAct(id, a.type, a.amount)
    \/ Timeouts
    \/ ClientConnect
    \/ ClientFetch
    \/ ClientSubscribe
    \/ ChannelJoined
    \/ ClientUpdate
    \/ ClientCleanup

SpecClient == Init /\ [][NextClient]_vars

\* The table with a host whose page is loaded again.
NextRestart ==
    \/ \E n \in 2..MaxPlayers : Initialize(n)
    \/ /\ clicks < MaxActions
       /\ \E a \in Offered(Snapshot(engine), HostId) : HostAct(a.type, a.amount)
    \/ /\ clicks < MaxActions
       /\ \E id \in Ids : \E a \in Offered(published, id) : ClientAct(id, a.type, a.amount)
    \/ Timeouts
    \/ Restart

SpecRestart == Init /\ [][NextRestart]_vars

\* The table with the update requests of the saves followed on their way.
NextFlight ==
    \/ \E n \in 2..MaxPlayers : Initialize(n)
    \/ /\ clicks < MaxFlightActions
       /\ \E a \in Offered(Snapshot(engine), HostId) : HostAct(a.type, a.amount)
    \/ /\ clicks < MaxFlightActions
       /\ \E id \in Ids : \E a \in Offered(published, id) : ClientAct(id, a.type, a.amount)
    \/ Timeouts
    \/ \E k \in 1..MaxFlight : Stored(k)

SpecFlight == InitAll(TableConfig, {"flight"}, MaxInbox) /\ [][NextFlight]_vars

\* The table with clients that send any action with any amount.
NextAmounts ==
    \/ \E n \in 2..MaxPlayers : Initialize(n)
    \/ /\ clicks < MaxAmountActions
       /\ \E a \in Offered(Snapshot(engine), HostId) : HostAct(a.type, a.amount)
    \/ /\ clicks < MaxAmountActions
       /\ \E id \in Ids, type \in ActionTypes, amount \in Amounts \cup {NoAmount} :
             SendAction(id, type, amount)
    \/ Timeouts

SpecAmounts == InitAll(TableConfig, {"calls"}, MaxInbox) /\ [][NextAmounts]_vars

\* The table of Spec with the age of the pending phase-advance callbacks followed.
SpecTimers == InitAll(TableConfig, {"timers"}, MaxInbox) /\ [][Next]_vars

\* ============================================================= properties
\* Observations shared by the properties below.
Resolved == engine.phase = "showdown" /\ advancing = 0 /\ engine.log # <<>>
Dealt(ps) == {i \in 1..Len(ps) : ps[i].cards > 0}
Credited == QSum([k \in 1..Len(engine.log) |-> engine.log[k].credited])

\* C1 (as stated): chip conservation.  Once a hand is resolved, the seated
\* players' stacks add up to what they added up to when the hand started.
ChipConservation ==
    Resolved => Chips(engine.players) = QSum(engine.stacks)

\* C2: a call of determineWinner that finds two or more non-folded players
\* holding cards credits exactly the pot to the players' stacks.
ShowdownPaysThePot ==
    \A k \in 1..Len(engine.log) :
        Cardinality(InHand(engine.log[k])) >= 2 => engine.log[k].credited = engine.log[k].pot

\* The side pots that the tier rule prescribes for the contributions c (by
\* roster index) of the players in who: per distinct positive level in ascending
\* order, the slice above the previous level times the number of players
\* reaching the level, those players being eligible.
RECURSIVE TierPots(_, _, _, _)
TierPots(ps, c, who, previous) ==
    LET levels == {c[i] : i \in {j \in who : QLt(previous, c[j])}}
        level == CHOOSE l \in levels : \A m \in levels : ~QLt(m, l)
        reach == {i \in who : ~QLt(c[i], level)}
    IN  IF levels = {} THEN <<>>
        ELSE <<[amount |-> QMul(QSub(level, previous), Cardinality(reach)),
                eligible |-> {ps[i].id : i \in reach}]>>
             \o TierPots(ps, c, who, level)

\* The side pots of a log entry, with the eligible players as a set.
Computed(l) ==
    [k \in 1..Len(l.sidePots) |->
        [amount |-> l.sidePots[k].amount, eligible |-> Range(l.sidePots[k].eligiblePlayers)]]

\* What each player has put into the pot when the hand is first resolved.
Contributed(l) == [i \in 1..Len(l.players) |-> QSub(engine.stacks[i], l.players[i].chips)]

\* C7 (as stated): when a hand is first resolved among several non-folded
\* players, the side pots computed are those of the tier rule applied to the
\* players' total contributions to the hand.
SidePotsFollowTiers ==
    (engine.log # <<>> /\ Cardinality(InHand(engine.log[1])) >= 2 /\ Len(NonFolded(engine.log[1])) # 1)
        => Computed(engine.log[1])
             = TierPots(engine.log[1].players, Contributed(engine.log[1]),
                        InHand(engine.log[1]), Zero)

\* C8 (as stated): whenever a resolution produces side pots, their amounts add
\* up to the pot of the hand.
SidePotsSumToPot ==
    \A k \in 1..Len(engine.log) :
        engine.log[k].sidePots # <<>>
            => QSum([j \in 1..Len(engine.log[k].sidePots) |-> engine.log[k].sidePots[j].amount])
                 = engine.log[k].pot

\* C10 (as stated): once a three-player hand in which two players folded is
\* resolved, the stacks have been credited the pot exactly once, all of it to the
\* remaining player, and the evaluator was never asked.
WinByFold ==
    (/\ Resolved
     /\ Cardinality(Dealt(engine.players)) = 3
     /\ \A k \in 1..Len(engine.log) : Cardinality(InHand(engine.log[k])) = 1)
        => /\ Credited = engine.pot
           /\ \A i \in InHand(engine.log[1]) :
                 engine.players[i].chips
                   = QAdd(engine.log[1].players[i].chips, engine.pot)
           /\ \A k \in 1..Len(engine.log) : ~engine.log[k].evaluated

\* C9 (as stated): heads-up, blinds 10/20 and stacks of 1000: after the first
\* startNewHand the dealer is the small blind, the pot is 30, the bet to match is
\* 20, and the player on move is the dealer and small blind.
HeadsUpBlinds ==
    (engine.handNumber = 1 /\ clicks = 0 /\ config = HeadsUpConfig)
        => /\ \A i \in 1..Len(engine.players) :
                 engine.players[i].isDealer <=> engine.players[i].isSmallBlind
           /\ engine.pot = Q(30)
           /\ engine.currentBet = Q(20)
           /\ getCurrentPlayer(engine) # 0
           /\ engine.players[getCurrentPlayer(engine)].isDealer
           /\ engine.players[getCurrentPlayer(engine)].isSmallBlind

\* C5: a raise leaves every other player who holds cards and is neither folded
\* nor all-in with hasActed = false, and from then on isBettingRoundComplete()
\* is false for as long as one of them has not acted again in the betting round.
RaiseResetsFlags ==
    \A id \in owing :
        /\ ~engine.players[getPlayer(engine, id)].hasActed
        /\ ~isBettingRoundComplete(engine)

\* A player who had called the big blind has to answer a raise.
RaiseResetsFlagsWitness ==
    \E id \in owing :
        LET p == engine.players[getPlayer(engine, id)]
        IN  /\ ~p.isSmallBlind /\ ~p.isBigBlind
            /\ p.currentBet = engine.bigBlind
            /\ QLt(p.currentBet, engine.currentBet)
            /\ ~p.hasActed

\* A step in which the host's callback handles the row in slot.
Handled(slot) ==
    inbox[slot].awaiting > 0 /\ inbox'[slot].awaiting = inbox[slot].awaiting - 1

\* C3 (as stated): handling a delivered row that was already marked processed
\* and applied changes nothing in the engine's state: no stack, contribution,
\* pot or turn.
AppliedOnce ==
    [][\A slot \in 1..MaxInbox :
          (Handled(slot) /\ inbox[slot].processed /\ inbox[slot].outcome = "applied")
              => engine' = engine]_vars

\* C4: handling an action whose actor is not the player on move leaves the
\* engine's state unchanged and schedules no phase advance.
WrongTurnRejected ==
    [][\A slot \in 1..MaxInbox :
          (/\ Handled(slot)
           /\ \/ getCurrentPlayer(engine) = 0
              \/ engine.players[getCurrentPlayer(engine)].id # inbox[slot].user_id)
              => (engine' = engine /\ timers' = timers /\ advancing' = advancing)]_vars

\* A row of a player who was not on move has been handled.
WrongTurnRejectedWitness ==
    \E slot \in 1..MaxInbox :
        /\ inbox[slot].outcome = "not-turn"
        /\ engine.players[getCurrentPlayer(engine)].id # inbox[slot].user_id

\* The seats setNextPlayer may select.
Eligible(e) == {i \in 1..Len(e.players) : CanAct(e.players[i])}

\* A step that ends with a call of setNextPlayer: an applied action, a phase
\* advance or the start of a hand.
SetNextPlayerRan ==
    \/ clicks' = clicks + 1 /\ engine' # engine
    \/ advancing' = advancing + 1
    \/ engine'.handNumber = engine.handNumber + 1

\* C6 (as stated): after setNextPlayer the turn is not on a folded or all-in
\* seat unless the phase is showdown, and with at most one eligible seat left the
\* phase is showdown.
TurnOrderAsStated ==
    [][SetNextPlayerRan =>
          /\ \/ engine'.phase = "showdown"
             \/ /\ ~engine'.players[getCurrentPlayer(engine')].folded
                /\ ~engine'.players[getCurrentPlayer(engine')].allIn
          /\ Cardinality(Eligible(engine')) <= 1 => engine'.phase = "showdown"]_vars

\* C6 (amended): after setNextPlayer, if no eligible seat is left the phase is
\* showdown; otherwise the turn is on an eligible seat (not folded, not all-in,
\* with chips), and a single eligible seat does not by itself end the betting:
\* the phase is showdown only if it was before or the hand was resolved.
TurnOrder ==
    [][SetNextPlayerRan =>
          /\ Eligible(engine') = {} => engine'.phase = "showdown"
          /\ Eligible(engine') # {} =>
                /\ getCurrentPlayer(engine') \in Eligible(engine')
                /\ engine'.phase = "showdown"
                      => (engine.phase \in {"river", "showdown"})]_vars

\* One seat is left to act against an all-in: it has the turn, mid-hand.
TurnOrderWitness ==
    /\ engine.phase \in {"preflop", "flop", "turn", "river"}
    /\ clicks > 0
    /\ Cardinality(Eligible(engine)) = 1
    /\ getCurrentPlayer(engine) \in Eligible(engine)
    /\ \E i \in InHand(engine) : engine.players[i].allIn
    /\ \E i \in 1..Len(engine.players) : engine.players[i].folded

\* The cards held at the table: every seated player's cards, then the community
\* cards.
RECURSIVE HoleCards(_)
HoleCards(ps) ==
    IF ps = <<>> THEN <<>> ELSE table.hole[Head(ps).id] \o HoleCards(Tail(ps))

Held == HoleCards(engine.players) \o table.community

AddPlayerRejects ==
    (/\ last.op = "addPlayer"
     /\ \E i \in 1..Len(last.before.players) :
           \/ last.before.players[i].seatPosition = last.seat
           \/ last.before.players[i].id = last.id)
        => (~last.ok /\ last.after = last.before)

\* The player (roster index, 0 if not seated) the last engine method was called
\* for, in the engine before the call.
Actor == getPlayer(last.before, last.id)

\* C13 (as stated): fold, check, call and raise return false and mutate nothing
\* when the acting id holds no private cards or has already folded, and so does
\* check when the player's contribution is below the current bet-to-match.
RefusedCallsMutateNothing ==
    (/\ last.op \in {"fold", "check", "call", "raise"}
     /\ \/ Actor = 0
        \/ last.before.players[Actor].cards = 0
        \/ last.before.players[Actor].folded
        \/ /\ last.op = "check"
           /\ QLt(last.before.players[Actor].currentBet, last.before.currentBet))
        => (~last.ok /\ last.after = last.before)

\* C14: a successful raise(id, amount) sets the bet-to-match to the old one plus
\* amount, capped by the raiser's contribution plus stack; that is also the
\* raiser's new contribution, the chips it takes are what left the stack and what
\* the pot gained, and a raiser whose stack reached 0 is all-in.
RaiseSetsTheBet ==
    (last.op = "raise" /\ last.ok) =>
        LET p == last.before.players[Actor]
            q == last.after.players[Actor]
            newBet == QMin(QAdd(last.before.currentBet, last.amount),
                           QAdd(p.currentBet, p.chips))
            moved == QSub(newBet, p.currentBet)
        IN  /\ last.after.currentBet = newBet
            /\ q.currentBet = newBet
            /\ q.chips = QSub(p.chips, moved)
            /\ last.after.pot = QAdd(last.before.pot, moved)
            /\ q.chips = Zero => q.allIn

\* A raise of more than the stack covers was cut down to the stack and left the
\* raiser all-in.
RaiseSetsTheBetWitness ==
    /\ last.op = "raise" /\ last.ok
    /\ QLt(QAdd(last.before.players[Actor].currentBet, last.before.players[Actor].chips),
           QAdd(last.before.currentBet, last.amount))
    /\ last.after.currentBet
         = QAdd(last.before.players[Actor].currentBet, last.before.players[Actor].chips)
    /\ last.after.players[Actor].allIn

Funded(e) == {i \in 1..Len(e.players) : QLt(Zero, e.players[i].chips)}

\* C16 (as stated): startNewHand starts a hand only when at least two seated
\* players have chips: invoked with fewer, it leaves the hand counter and the
\* phase alone, posts no blind and deals no card.
StartNewHandNeedsTwo ==
    [][(timers'.start = timers.start - 1 /\ Cardinality(Funded(engine)) < 2)
          => /\ engine'.handNumber = engine.handNumber
             /\ engine'.phase = engine.phase
             /\ engine'.pot = engine.pot
             /\ engine'.deck = engine.deck]_vars

\* C17 (as stated): the host handles the delivered actions in the order in which
\* its callback received them: the action handled in a step is the one whose
\* callback started first among those still waiting.
HandledInArrivalOrder ==
    [][\A slot \in DOMAIN inbox :
          (inbox[slot].awaiting > 0 /\ inbox'[slot].awaiting = inbox[slot].awaiting - 1)
              => Head(callbacks) = slot]_vars

\* How many times the host's callback has handled the row in slot: the callbacks
\* started for it less those still waiting.
TimesHandled(slot) == inbox[slot].deliveries - inbox[slot].awaiting

\* C18 (as stated, the part a finite run refutes): a submitted row is handled
\* at most once, and it is marked processed exactly when it has been handled.
ConsumedExactlyOnce ==
    \A slot \in DOMAIN inbox :
        /\ TimesHandled(slot) <= 1
        /\ inbox[slot].processed <=> TimesHandled(slot) = 1

\* C19 (as stated): once connect() has completed, the client's local snapshot is
\* never older than the latest snapshot published before connect() completed: it
\* is that snapshot, or one notified since.
ConnectMissesNothing ==
    client.connectionStatus = "connected"
        => (client.currentGameState = client.atConnect \/ client.updates > 0)

\* C20 (as stated): when the host restarts while a hand is in progress, the
\* engine after initialize() has the phase, hand counter, roster, stacks,
\* contributions, pot and turn index of the last published snapshot, no seated
\* player was added again and no new hand was started; and the hand can be
\* continued: as before the restart, every later street of it shows its
\* community cards (three on the flop, four on the turn, five on the river).
InProgress == {"preflop", "flop", "turn", "river", "showdown"}

Streets(e) ==
    /\ e.phase = "flop" => e.communityCards = 3
    /\ e.phase = "turn" => e.communityCards = 4
    /\ e.phase = "river" => e.communityCards = 5

RestartKeepsTheHand ==
    [][ /\ (env'.restarts = env.restarts + 1 /\ published.phase \in InProgress)
            => /\ Snapshot(engine') = published
               /\ published' = published
        /\ (env'.restarts > 0 /\ Streets(engine)) => Streets(engine') ]_vars

\* Without a restart every street shows its community cards.
StreetsWithoutRestart == env.restarts = 0 => Streets(engine)

\* At a restart in a hand in progress the engine takes over the stored state.
RestartRestoresTheSnapshot ==
    [][ (env'.restarts = env.restarts + 1 /\ published.phase \in InProgress)
            => Snapshot(engine') = published /\ published' = published ]_vars

\* C21 (as stated): a delayed callback that fires after the table has moved on
\* leaves stacks, pot, phase and hand counter unchanged: a phase-advance callback
\* firing when the hand is at showdown or later, a phase-advance callback
\* scheduled in a hand that a newer hand has replaced, and a next-hand callback
\* firing while a hand is being played (the hand it was scheduled for is over and
\* replaced).
Betting == {"preflop", "flop", "turn", "river"}

SameHand(e, f) ==
    /\ [i \in 1..Len(e.players) |-> e.players[i].chips]
           = [i \in 1..Len(f.players) |-> f.players[i].chips]
    /\ e.pot = f.pot
    /\ e.phase = f.phase
    /\ e.handNumber = f.handNumber

StaleCallbacksHarmless ==
    [][ /\ (timers'.advance = timers.advance - 1
                /\ (engine.phase \in {"showdown", "ended"} \/ timers.stale > 0))
            => SameHand(engine, engine')
        /\ (timers'.start = timers.start - 1 /\ engine.phase \in Betting)
            => SameHand(engine, engine') ]_vars

\* The part about the hand at showdown or later.
AdvanceAtShowdownHarmless ==
    [][ (timers'.advance = timers.advance - 1 /\ engine.phase \in {"showdown", "ended"})
            => SameHand(engine, engine') ]_vars

\* C22 (as stated): every publish replaces the stored state by a complete
\* snapshot; the store never replaces a snapshot by one taken earlier, and once
\* no publish is in flight it holds the snapshot of the engine's current state.
LastWriterWins ==
    [][ /\ \A k \in 1..Len(flight) :
              (Len(flight') = Len(flight) - 1 /\ published' = flight[k].state
                  /\ published' # published)
                  => (DOMAIN published' = DOMAIN Snapshot(engine) /\ ~flight[k].late)
        /\ (initialized' /\ flight' = <<>>) => published' = Snapshot(engine') ]_vars

\* C23 (as stated): whenever determineWinner resolves a hand, in whatever
\* street, every player who holds cards and has not folded is among the players
\* it considers, also a player who is all-in with a stack of 0.
Considered(entry) == Range(NonFolded([engine EXCEPT !.players = entry.players]))

AllInPlayersConsidered ==
    \A k \in 1..Len(engine.log) :
        InHand([engine EXCEPT !.players = engine.log[k].players])
            \subseteq Considered(engine.log[k])

\* C24 (as stated): a completed betting round causes exactly one phase advance:
\* while a phase-advance callback is pending no player action is applied and no
\* second callback is scheduled, and the callback moves a hand to its next
\* street only when the betting round of the current street is complete.
OneAdvancePerRound ==
    [][ /\ (timers.advance > 0 /\ clicks' = clicks + 1)
            => (engine' = engine /\ timers'.advance = timers.advance)
        /\ (timers'.advance = timers.advance - 1 /\ engine.phase \in Betting
                /\ engine'.phase # engine.phase)
            => isBettingRoundComplete(engine) ]_vars

\* C25 (as stated): whatever action and amount a participant submits, every
\* stack, every contribution and the pot stay non-negative, and no call or raise
\* moves chips from the pot back into the stack of the player who made it.
ChipsStayNonNegative ==
    /\ \A i \in 1..Len(engine.players) :
          /\ ~QLt(engine.players[i].chips, Zero)
          /\ ~QLt(engine.players[i].currentBet, Zero)
    /\ ~QLt(engine.pot, Zero)
    /\ (last.op \in {"call", "raise"} /\ last.ok)
          => /\ ~QLt(last.after.pot, last.before.pot)
             /\ ~QLt(last.before.players[Actor].chips, last.after.players[Actor].chips)

\* C26 (as stated): when the player on move leaves during a betting phase, the
\* removal leaves the turn with a player of the remaining roster who can act
\* (not folded, not all-in, with chips), whenever the remaining roster has one.
RosterIds(e) == {e.players[i].id : i \in 1..Len(e.players)}

LeaverHeldTheTurn ==
    /\ env'.leaves = env.leaves + 1
    /\ engine.phase \in Betting
    /\ getCurrentPlayer(engine) # 0
    /\ engine.players[getCurrentPlayer(engine)].id \notin RosterIds(engine')

LeaveKeepsTheTurn ==
    [][ (LeaverHeldTheTurn /\ \E i \in 1..Len(engine'.players) : CanAct(engine'.players[i]))
            => /\ getCurrentPlayer(engine') # 0
               /\ CanAct(engine'.players[getCurrentPlayer(engine')]) ]_vars

\* C27 (as stated): whenever a hand is in a betting phase, currentPlayerIndex
\* is an index of the roster and the player it designates has not folded, is not
\* all-in and has chips.
TurnOnEligiblePlayer ==
    engine.phase \in Betting
        => /\ getCurrentPlayer(engine) # 0
           /\ CanAct(engine.players[getCurrentPlayer(engine)])

\* C28 (as stated): a seat holds at most one player: after any sequence of join
\* and leave notifications the seat positions of the roster entries are pairwise
\* distinct.
SeatsDistinct ==
    \A i, j \in 1..Len(engine.players) :
        engine.players[i].seatPosition = engine.players[j].seatPosition => i = j

\* C29 (as stated): no call, raise or all-in that the engine accepts leaves the
\* bet-to-match lower than it was before the action.
BetToMatchNeverDecreases ==
    (last.op \in {"call", "raise"} /\ last.ok)
        => ~QLt(last.after.currentBet, last.before.currentBet)

\* C30 (as stated): an action handled while the phase is waiting, showdown or
\* ended changes nothing in the engine (no stack, contribution, pot or flag) and
\* schedules no phase advance or new hand.
ActionsOnlyWhileBetting ==
    [][ (clicks' = clicks + 1 /\ engine.phase \notin Betting)
            => (engine' = engine /\ timers' = timers) ]_vars

\* --------------------------------------------------- seats around the table
\* The roster indices that follow index i in seat order, with wrap-around,
\* nearest first, ending with i itself.
SeatsAfter(e, i) ==
    [k \in 1..Len(e.players) |-> ((i - 1 + k) % Len(e.players)) + 1]

\* The first roster index after index i whose player can act, or 0.
FirstToActAfter(e, i) ==
    LET order == SelectSeq(SeatsAfter(e, i), LAMBDA j : CanAct(e.players[j]))
    IN  IF order = <<>> THEN 0 ELSE Head(order)

BigBlinds(e) == {i \in 1..Len(e.players) : e.players[i].isBigBlind}
SmallBlinds(e) == {i \in 1..Len(e.players) : e.players[i].isSmallBlind}
Dealers(e) == {i \in 1..Len(e.players) : e.players[i].isDealer}

HandStarts == engine'.handNumber = engine.handNumber + 1

\* C31: after startNewHand() with three or more eligible players the player on
\* move is the first seat after the big blind, in seat order with wrap-around,
\* that can act, whatever the turn index was at the end of the previous hand.
FirstToActFollowsBigBlind ==
    [][ (/\ HandStarts
         /\ Len(getActivePlayers(engine)) >= 3
         /\ engine'.phase = "preflop")
            => \E bb \in BigBlinds(engine') :
                  getCurrentPlayer(engine') = FirstToActAfter(engine', bb) ]_vars

Streets3 == {"flop", "turn", "river"}

EntersStreet == engine'.phase \in Streets3 /\ engine'.phase # engine.phase

\* C32: after advancePhase() into the flop, turn or river every contribution and
\* has-acted flag is reset, the bet to match is 0, and the player on move is the
\* first eligible seat after the dealer, whoever acted last in the round before.
StreetOpensAfterDealer ==
    [][ EntersStreet
            => /\ \A i \in 1..Len(engine'.players) :
                     /\ engine'.players[i].currentBet = Zero
                     /\ ~engine'.players[i].hasActed
               /\ engine'.currentBet = Zero
               /\ \E d \in Dealers(engine') :
                     getCurrentPlayer(engine') = FirstToActAfter(engine', d) ]_vars

\* The roster indices of the players who can be dealt into the next hand.
WithChips(e) == {i \in 1..Len(e.players) : QLt(Zero, e.players[i].chips)}

\* The first eligible roster index of e after index i, or 0.
NextEligibleAfter(e, i) ==
    LET order == SelectSeq(SeatsAfter(e, i), LAMBDA j : j \in WithChips(e))
    IN  IF order = <<>> THEN 0 ELSE Head(order)

\* C33: after every startNewHand() with two or more eligible players there is
\* exactly one dealer, one small blind and one big blind; the dealer is the next
\* eligible seat after the dealer of the hand before, and the blinds are the next
\* two eligible seats after the dealer.
ButtonMovesToNextEligible ==
    [][ (HandStarts /\ Cardinality(WithChips(engine)) >= 2)
            => /\ Cardinality(Dealers(engine')) = 1
               /\ Cardinality(SmallBlinds(engine')) = 1
               /\ Cardinality(BigBlinds(engine')) = 1
               /\ \A was \in Dealers(engine) :
                     Dealers(engine') = {NextEligibleAfter(engine, was)}
               /\ \A d \in Dealers(engine') :
                     /\ SmallBlinds(engine') = {NextEligibleAfter(engine, d)}
                     /\ \A sb \in SmallBlinds(engine') :
                           BigBlinds(engine') = {NextEligibleAfter(engine, sb)} ]_vars

\* C34: in every reachable state, also in a hand continued after a restart of
\* the authority, the community cards follow the phase: none preflop, three on
\* the flop, four on the turn, five on the river.
CardsFollowThePhase ==
    /\ engine.phase = "preflop" => engine.communityCards = 0
    /\ engine.phase = "flop" => engine.communityCards = 3
    /\ engine.phase = "turn" => engine.communityCards = 4
    /\ engine.phase = "river" => engine.communityCards = 5

\* Without a restart the community cards follow the phase.
CardsFollowThePhaseWithoutRestart == env.restarts = 0 => CardsFollowThePhase

\* C35: whenever a hand is resolved by comparing hands (two or more players have
\* not folded when determineWinner evaluates), all five community cards have
\* been dealt, also when the showdown is forced early because nobody can act.
ShowdownOnFullBoard ==
    \A k \in 1..Len(engine.log) :
        (/\ engine.log[k].evaluated
         /\ Cardinality({i \in 1..Len(engine.log[k].players) :
                            ~engine.log[k].players[i].folded}) >= 2)
            => engine.communityCards = 5

\* ------------------------------------------------------------------ progress
\* A table that a player may leave, under the scheduling the code relies on:
\* every armed setTimeout callback fires, and a player who is offered an action
\* eventually takes one.  At most MaxLiveActions actions are taken.
MaxLiveActions == 4

PlayerActs ==
    /\ clicks < MaxLiveActions
    /\ \/ \E a \in Offered(Snapshot(engine), HostId) : HostAct(a.type, a.amount)
       \/ \E id \in Ids : \E a \in Offered(published, id) : ClientAct(id, a.type, a.amount)

NextLive ==
    \/ \E n \in 2..MaxPlayers : Initialize(n)
    \/ \E id \in Ids : Leave(id)
    \/ PlayerActs
    \/ Timeouts

\* The steps of each callback and of the players' actions, told by the counter
\* that only they lower or raise, with the conditions under which they can be
\* taken: AdvanceFires holds on exactly the steps of AdvanceGamePhase and is
\* enabled exactly when AdvanceGamePhase is, and so on.
TimerStates == [advance : 0..MaxTimers, start : 0..MaxTimers,
                ended : 0..MaxTimers, stale : 0..MaxTimers]

AdvanceFires ==
    /\ timers.advance > 0
    /\ IF engine.phase \in {"showdown", "ended"}
       THEN timers.start < MaxTimers
       ELSE advancing < MaxTimers
    /\ \E t \in TimerStates : t.advance = timers.advance - 1 /\ timers' = t

ResumeFires ==
    /\ advancing > 0
    /\ engine.phase = "showdown" => timers.ended < MaxTimers
    /\ advancing' = advancing - 1

HandEndedFires ==
    /\ timers.ended > 0
    /\ timers.start < MaxTimers
    /\ \E t \in TimerStates : t.ended = timers.ended - 1 /\ timers' = t

StartFires ==
    /\ timers.start > 0
    /\ engine.handNumber < MaxHands
    /\ \E t \in TimerStates : t.start = timers.start - 1 /\ timers' = t

SomeoneIsOffered ==
    /\ initialized
    /\ \/ Offered(Snapshot(engine), HostId) # {}
       \/ \E id \in Ids \ {HostId} : Offered(published, id) # {}

ActionTaken ==
    /\ clicks < MaxLiveActions
    /\ timers.advance < MaxTimers
    /\ SomeoneIsOffered
    /\ clicks' = clicks + 1

\* Every armed callback fires, and a player who is offered an action takes one.
Fairness ==
    /\ WF_clicks(ActionTaken)
    /\ WF_timers(AdvanceFires)
    /\ WF_advancing(ResumeFires)
    /\ WF_timers(HandEndedFires)
    /\ WF_timers(StartFires)

SpecLive == Init /\ [][NextLive]_vars /\ Fairness

\* The same table when nobody leaves.
SpecLiveSeated ==
    Init /\ [][NextLive /\ env'.leaves = env.leaves]_vars /\ Fairness

OutOfBetting(e) == e.phase \notin Betting

\* C36: with every delayed callback firing and the player on move acting, a hand
\* that is in a betting phase with two or more seated players is eventually
\* resolved (or fewer than two players stay seated), and a resolved hand is
\* followed by the next hand; no state, also after a player has left, keeps the
\* table in a betting phase in which nobody can act.  Stated up to the bounds
\* MaxLiveActions and MaxHands.
HandsAreResolved ==
    /\ [](engine.phase \in Betting /\ Len(engine.players) >= 2
            => <>(\/ OutOfBetting(engine)
                  \/ Len(engine.players) < 2
                  \/ clicks >= MaxLiveActions))
    /\ \A h \in 1..(MaxHands - 1) :
          [](engine.handNumber = h /\ engine.phase = "showdown"
                => <>(engine.handNumber > h))

\* C37: the phase is waiting initially, the table enters waiting whenever fewer
\* than two seated players remain, and no new hand is dealt while fewer than two
\* seated players have chips.
WaitingBelowTwoPlayers ==
    /\ engine.phase = "waiting"
    /\ [][ /\ (Len(engine.players) >= 2 /\ Len(engine'.players) < 2)
                => engine'.phase = "waiting"
           /\ HandStarts
                => Cardinality({i \in 1..Len(engine'.stacks) :
                                   QLt(Zero, engine'.stacks[i])}) >= 2 ]_vars

\* ------------------------------------------------------------- late joiners
\* A table that players join while the host plays; nobody leaves, so a roster
\* index keeps designating the same player.
MaxSeatedActions == 3

NextSeated ==
    \/ \E n \in 1..MaxPlayers : Initialize(n)
    \/ \E id \in Ids : Join(id)
    \/ /\ clicks < MaxSeatedActions
       /\ \E a \in Offered(Snapshot(engine), HostId) : HostAct(a.type, a.amount)
    \/ /\ clicks < MaxSeatedActions
       /\ \E id \in Ids : \E a \in Offered(published, id) : ClientAct(id, a.type, a.amount)
    \/ Timeouts

SpecSeated == Init /\ [][NextSeated]_vars

\* The players seated after the running hand was dealt: startNewHand recorded a
\* stack for every player seated then, and a join appends to the roster.
LateJoiners(e) ==
    IF e.handNumber = 0 THEN {}
    ELSE {i \in 1..Len(e.players) : i > Len(e.stacks)}

\* C38: a player who joins while a hand is in progress takes no part in it: the
\* player has no private cards, is never the player on move, is not waited for
\* by isBettingRoundComplete(), and is awarded nothing.
JoinerTakesNoPart ==
    \A i \in LateJoiners(engine) :
        /\ engine.players[i].cards = 0
        /\ ~QLt(config.buyIn, engine.players[i].chips)
        /\ engine.phase \in Betting
              => /\ getCurrentPlayer(engine) # i
                 /\ isBettingRoundComplete(engine)
                       = isBettingRoundComplete(removePlayer(engine, engine.players[i].id))

\* -------------------------------------------------------------- chip flow
\* A hand that has been dealt and not resolved yet, with the roster it was dealt
\* to.
Unresolved(e) ==
    /\ e.handNumber > 0
    /\ e.phase \in Betting
    /\ e.log = <<>>
    /\ Len(e.stacks) = Len(e.players)

PotAccountsForStacks ==
    Unresolved(engine) => QAdd(Chips(engine.players), engine.pot) = QSum(engine.stacks)

ChipsOnlyEnterThePot ==
    (/\ Unresolved(engine)
     /\ Unresolved(engine')
     /\ engine'.handNumber = engine.handNumber
     /\ Len(engine'.players) = Len(engine.players))
        => /\ \A i \in 1..Len(engine.players) :
                 ~QLt(engine.players[i].chips, engine'.players[i].chips)
           /\ ~QLt(engine'.pot, engine.pot)

\* C39: during betting, from startNewHand() until the hand is resolved, the sum
\* of the stacks plus the pot is constant and equals the stacks the hand started
\* with; posting the blinds, fold, check, call and raise only move chips from a
\* stack into the pot.
ChipsConservedWhileBetting ==
    /\ []PotAccountsForStacks
    /\ [][ChipsOnlyEnterThePot]_vars

\* ------------------------------------------------------------------- joins
JoinHandled == env'.joins = env.joins + 1

\* C40: a join that arrives while the table is waiting and brings the seated
\* players to two or more starts a hand exactly once: the phase becomes preflop,
\* the hand counter grows by one, no further start is armed and the state is
\* published.  A join that arrives while a hand is running starts no hand.
JoinStartsOneHand ==
    [][ JoinHandled
            => /\ (engine.phase = "waiting" /\ Len(engine'.players) >= 2)
                     => /\ engine'.phase = "preflop"
                        /\ engine'.handNumber = engine.handNumber + 1
                        /\ timers' = timers
                        /\ published' = Snapshot(engine')
               /\ (engine.handNumber > 0 /\ engine.phase \in InProgress)
                     => /\ engine'.handNumber = engine.handNumber
                        /\ engine'.phase = engine.phase
                        /\ timers' = timers ]_vars

====
